---- MODULE Spec2Model ----
(***************************************************************************)
(* Model of sketch-grab's pipeline.py.                                     *)
(*                                                                         *)
(* Spec follows calls of Deduplicate.process: the input container is fixed *)
(* when the pass starts, the loop body of process runs once per record,    *)
(* and the pass ends when the iterator is exhausted or an exception leaves *)
(* process; a completed pass may be followed by a pass over its output.    *)
(* A record is modelled by the headers the pass reads or writes.  The      *)
(* output is the sequence of records handed to writer.write_record; the    *)
(* writer's own serialisation (warcio, not part of pipeline.py) is not     *)
(* modelled.  An absent header (get_header returns None) is modelled by    *)
(* the empty value of its type: NoURI, NoDigest, NoRef, NoText.            *)
(*                                                                         *)
(* PipelineSpec follows the task list of the pipeline, one item after the  *)
(* other: CheckIP.process with its counter, then the tasks that create,    *)
(* move and upload the item's files.  In PipelineSpec no pass of Spec is   *)
(* in progress (pc = "idle"); in Spec no item is in the pipeline.          *)
(***************************************************************************)
EXTENDS Integers, Sequences, FiniteSets, TLC

\* Longest input container explored, in records.
MaxLen == 3

\* Most items the pipeline is followed for, one CheckIP.process call each.
MaxCalls == 23

----------------------------------------------------------------------------
\* Header values

NoURI == <<>>
NoDigest == "none"
NoRef == 0
NoText == ""

\* Target URIs are sequences of characters; "u", "v", "w" stand for the
\* bracket-free text of a URI.
BareU == <<"u">>
BareV == <<"v">>
BareW == <<"w">>
WrappedU == <<"<", "u", ">">>
WrappedV == <<"<", "v", ">">>
NestedU == <<"<", "<", "u", ">", ">">>
OnlyLt == <<"<">>
EmptyBrackets == <<"<", ">">>
Unclosed == <<"<", "u">>

RevisitProfile == "http://netpreserve.org/warc/1.0/revisit/identical-payload-digest"

\* the paths Deduplicate.process opens, lines 199-200
InputFilename == "item_dir/warc_file_base.warc.gz"
OutputFilenameSame == InputFilename
OutputFilename == "item_dir/warc_file_base-deduplicated.warc.gz"

\* the names of those two files inside item_dir
InputName == "warc_file_base.warc.gz"
OutputName == "warc_file_base-deduplicated.warc.gz"

----------------------------------------------------------------------------
\* The records a capture can hold.  Record ids, dates and HTTP header blocks
\* are distinct per record (ids are UUIDs); they are derived from the
\* record's position in RecordAt.

ResponseShapes ==
    {<<"response", u, d>> : u \in {BareU, WrappedU, WrappedV}, d \in {NoDigest, "A", "B"}}
        \cup {<<"response", u, "A">> : u \in {NestedU, OnlyLt, EmptyBrackets, Unclosed}}

OtherShapes ==
    { <<"warcinfo", NoURI, NoDigest>>,
      <<"request", WrappedU, "A">>,
      <<"revisit", WrappedU, "A">> }

Shapes == ResponseShapes \cup OtherShapes

RecordAt(shape, i) ==
    [ type          |-> shape[1],
      uri           |-> shape[2],
      digest        |-> shape[3],
      id            |-> i,
      date          |-> 100 + i,
      http          |-> IF shape[1] = "warcinfo" THEN NoRef ELSE 200 + i,
      payload       |-> shape[1] # "revisit",
      refersTo      |-> NoRef,
      refersToDate  |-> IF shape[1] = "revisit" THEN 99 ELSE NoRef,
      refersToURI   |-> IF shape[1] = "revisit" THEN BareW ELSE NoURI,
      truncated     |-> IF shape[1] = "revisit" THEN "length" ELSE NoText,
      profile       |-> IF shape[1] = "revisit" THEN RevisitProfile ELSE NoText,
      blockDigest   |-> "block-digest",
      contentLength |-> "content-length",
      filename      |-> IF shape[1] = "warcinfo" THEN InputName ELSE NoText ]

\* the container holding the records of the given shapes, in that order
Container(shapes) == [i \in 1..Len(shapes) |-> RecordAt(shapes[i], i)]

----------------------------------------------------------------------------
VARIABLES
    input,      \* the records of <stem>.warc.gz, in file order
    pos,        \* number of records the loop has finished
    out,        \* the records handed to writer.write_record, in order
    digests,    \* the dict digests of Deduplicate.process
    pc,         \* "open", "run", "done" (loop exhausted), "failed" (exception
                \* in the loop), "ioerror" (open failed) or "idle" (no pass)
    pass,       \* 1 for the pass over a capture, 2 for a pass over its output
    captured    \* the content of the input file when the pass started

dedupVars == <<input, pos, out, digests, pc, pass, captured>>

VARIABLES
    counter,          \* CheckIP._counter
    log,              \* the CheckIP.process calls so far: the counter each
                      \* started with and what it did
    ran,              \* the tasks executed for the current item, in order
    itemState,        \* "idle", "running", "failed" or "done"
    files,            \* the content of each path of the current item
    uploaded,         \* the contents UploadWithTracker has transferred
    dedupInPipeline   \* FALSE: the task list as committed, where line 391 is
                      \* a comment; TRUE: the task list with the Deduplicate()
                      \* task of line 391 in place

pipeVars == <<counter, log, ran, itemState, files, uploaded, dedupInPipeline>>

vars == <<dedupVars, pipeVars>>

----------------------------------------------------------------------------
\* The paths of an item, lines 185-186, 199-200, 269-275, 431-432

ItemWarcGz == InputFilename
ItemDeduplicated == OutputFilename
ItemData == "item_dir/warc_file_base_data.txt"
ItemWarc == "item_dir/warc_file_base.warc"
DataWarcGz == "data_dir/warc_file_base.warc.gz"
DataData == "data_dir/warc_file_base_data.txt"

ItemDirPaths == {ItemWarcGz, ItemDeduplicated, ItemData, ItemWarc}
Paths == ItemDirPaths \cup {DataWarcGz, DataData}

\* no path of the item exists
NoFiles == [p \in Paths |-> "absent"]

\* the state before the pipeline has been given an item
NoItem ==
    /\ counter = 0
    /\ log = <<>>
    /\ ran = <<>>
    /\ itemState = "idle"
    /\ files = NoFiles
    /\ uploaded = <<>>

----------------------------------------------------------------------------
\* URI unwrapping, lines 209-211

StartsWithLt(url) == Len(url) > 0 /\ url[1] = "<"

\* re.search('^<(.+)>$', url) finds a match
ReMatches(url) == Len(url) >= 3 /\ url[1] = "<" /\ url[Len(url)] = ">"

\* .group(1) of that match
ReGroup1(url) == SubSeq(url, 2, Len(url) - 1)

UnwrapIdentity(url) == url

UnwrapLeadingOnly(url) == IF StartsWithLt(url) THEN Tail(url) ELSE url

\* the value of url after lines 209-210, when they do not raise
Unwrap(url) == IF StartsWithLt(url) THEN ReGroup1(url) ELSE url

\* re.search returns None and .group(1) raises AttributeError
UnwrapRaises(url) == StartsWithLt(url) /\ ~ReMatches(url)

Unwrapped(rec) == [rec EXCEPT !.uri = Unwrap(rec.uri)]

----------------------------------------------------------------------------
\* The digest index, lines 198, 216, 223-227

EmptyIndex == [d \in {} |-> <<NoRef, NoRef, NoURI>>]

\* digests = {} at the start of process; previous is the index of an
\* earlier call
NewIndexKept(previous) == previous

NewIndex(previous) == EmptyIndex

IsResponseExceptWarcinfo(rec) == rec.type # "warcinfo"

IsResponse(rec) == rec.type = "response"

InIndexNever(digest, index) == FALSE

InIndex(digest, index) == digest \in DOMAIN index

IndexEntryRawURI(rec, raw) == <<rec.id, rec.date, raw.uri>>

\* rec is the record after unwrapping, raw the record as read
IndexEntry(rec, raw) == <<rec.id, rec.date, rec.uri>>

IndexInsertNothing(index, digest, entry) == index

IndexInsert(index, digest, entry) ==
    [d \in DOMAIN index \cup {digest} |-> IF d = digest THEN entry ELSE index[d]]

----------------------------------------------------------------------------
\* Revisit construction, lines 237-255

CreateWarcRecordFreshId(warc_headers, http_headers) ==
    [warc_headers EXCEPT !.http = http_headers, !.payload = FALSE,
                         !.id = 1000 + warc_headers.id]

\* writer.create_warc_record(uri, 'revisit', warc_headers=..., http_headers=...):
\* the given WARC headers and HTTP headers are kept, no payload is given.
CreateWarcRecord(warc_headers, http_headers) ==
    [warc_headers EXCEPT !.http = http_headers, !.payload = FALSE]

RevisitHeadersKeepLength(rec, duplicate) ==
    [rec EXCEPT !.refersTo = duplicate[1],
                !.refersToDate = duplicate[2],
                !.refersToURI = duplicate[3],
                !.type = "revisit",
                !.truncated = "length",
                !.profile = RevisitProfile,
                !.blockDigest = NoText]

\* lines 238-248
RevisitHeaders(rec, duplicate) ==
    [rec EXCEPT !.refersTo = duplicate[1],
                !.refersToDate = duplicate[2],
                !.refersToURI = duplicate[3],
                !.type = "revisit",
                !.truncated = "length",
                !.profile = RevisitProfile,
                !.blockDigest = NoText,
                !.contentLength = NoText]

record_response_to_revisit(rec, duplicate) ==
    CreateWarcRecord(RevisitHeaders(rec, duplicate), rec.http)

----------------------------------------------------------------------------
\* writer.write_record

WriteRecordDropRevisit(output, rec) ==
    IF rec.type = "revisit" THEN output ELSE Append(output, rec)

WriteRecordFirst(output, rec) == <<rec>> \o output

WriteRecord(output, rec) == Append(output, rec)

----------------------------------------------------------------------------
\* Deduplicate.process

Init ==
    /\ \E n \in 0..MaxLen : \E shapes \in [1..n -> Shapes] : input = Container(shapes)
    /\ pos = 0
    /\ out = <<>>
    /\ digests = EmptyIndex
    /\ pc = "open"
    /\ pass = 1
    /\ captured = input
    /\ NoItem
    /\ dedupInPipeline = FALSE

\* the content of the file at path after open(opened, 'wb'), which truncates
\* the file it opens
AfterOpenForWriting(path, content, opened) == IF path = opened THEN <<>> ELSE content

\* lines 202-204: both files are opened, the output is created empty
Open ==
    /\ pc = "open"
    /\ input' = AfterOpenForWriting(InputFilename, input, OutputFilename)
    /\ out' = <<>>
    /\ pc' = "run"
    /\ UNCHANGED <<pos, digests, pass, captured>>
    /\ UNCHANGED pipeVars

\* lines 202-203: an open raises (IOError / OSError)
OpenFail ==
    /\ pc = "open"
    /\ pc' = "ioerror"
    /\ UNCHANGED <<input, pos, out, digests, pass, captured>>
    /\ UNCHANGED pipeVars

\* the record the iterator yields next
Current == input[pos + 1]

Reading == pc = "run" /\ pos < Len(input)

\* lines 209-210 raise: the exception leaves process
UnwrapFail ==
    /\ Reading
    /\ UnwrapRaises(Current.uri)
    /\ pc' = "failed"
    /\ UNCHANGED <<input, pos, out, digests, pass, captured>>
    /\ UNCHANGED pipeVars

\* lines 213-220: a response whose digest is in the index
ResponseDuplicate ==
    /\ Reading
    /\ ~UnwrapRaises(Current.uri)
    /\ LET rec == Unwrapped(Current) IN
        /\ IsResponse(rec)
        /\ InIndex(rec.digest, digests)
        /\ out' = WriteRecord(out, record_response_to_revisit(rec, digests[rec.digest]))
    /\ pos' = pos + 1
    /\ UNCHANGED <<input, digests, pc, pass, captured>>
    /\ UNCHANGED pipeVars

\* lines 213-216, 222-228: a response whose digest is not in the index
ResponseFirst ==
    /\ Reading
    /\ ~UnwrapRaises(Current.uri)
    /\ LET rec == Unwrapped(Current) IN
        /\ IsResponse(rec)
        /\ ~InIndex(rec.digest, digests)
        /\ digests' = IndexInsert(digests, rec.digest, IndexEntry(rec, Current))
        /\ out' = WriteRecord(out, rec)
    /\ pos' = pos + 1
    /\ UNCHANGED <<input, pc, pass, captured>>
    /\ UNCHANGED pipeVars

\* lines 230-232
Warcinfo ==
    /\ Reading
    /\ ~UnwrapRaises(Current.uri)
    /\ LET rec == Unwrapped(Current) IN
        /\ ~IsResponse(rec)
        /\ rec.type = "warcinfo"
        /\ out' = WriteRecord(out, [rec EXCEPT !.filename = OutputFilename])
    /\ pos' = pos + 1
    /\ UNCHANGED <<input, digests, pc, pass, captured>>
    /\ UNCHANGED pipeVars

\* lines 234-235
OtherRecord ==
    /\ Reading
    /\ ~UnwrapRaises(Current.uri)
    /\ LET rec == Unwrapped(Current) IN
        /\ ~IsResponse(rec)
        /\ rec.type # "warcinfo"
        /\ out' = WriteRecord(out, rec)
    /\ pos' = pos + 1
    /\ UNCHANGED <<input, digests, pc, pass, captured>>
    /\ UNCHANGED pipeVars

\* the iterator is exhausted: the with block closes both files
Finish ==
    /\ pc = "run"
    /\ pos = Len(input)
    /\ pc' = "done"
    /\ UNCHANGED <<input, pos, out, digests, pass, captured>>
    /\ UNCHANGED pipeVars

\* process is called again, for an item whose <stem>.warc.gz is the
\* container the completed pass wrote; its output file does not exist yet
Rerun ==
    /\ pc = "done"
    /\ pass = 1
    /\ pass' = 2
    /\ input' = out
    /\ captured' = out
    /\ out' = <<>>
    /\ pos' = 0
    /\ digests' = NewIndex(digests)
    /\ pc' = "open"
    /\ UNCHANGED pipeVars

Next ==
    \/ Open
    \/ OpenFail
    \/ Rerun
    \/ UnwrapFail
    \/ ResponseDuplicate
    \/ ResponseFirst
    \/ Warcinfo
    \/ OtherRecord
    \/ Finish

Spec == Init /\ [][Next]_vars

----------------------------------------------------------------------------
\* The task list, lines 356-455

PipelineTasksMoveBeforeStats(dedup) ==
    <<"CheckIP", "GetItemFromTracker", "PrepareDirectories", "WgetDownload">>
        \o (IF dedup THEN <<"Deduplicate">> ELSE <<>>)
        \o <<"MoveFiles", "PrepareStatsForTracker", "UploadWithTracker", "SendDoneToTracker">>

PipelineTasks(dedup) ==
    <<"CheckIP", "GetItemFromTracker", "PrepareDirectories", "WgetDownload">>
        \o (IF dedup THEN <<"Deduplicate">> ELSE <<>>)
        \o <<"PrepareStatsForTracker", "MoveFiles", "UploadWithTracker", "SendDoneToTracker">>

\* the task the pipeline runs next for the current item
NextTask ==
    IF itemState = "running" /\ Len(ran) < Len(PipelineTasks(dedupInPipeline))
    THEN PipelineTasks(dedupInPipeline)[Len(ran) + 1]
    ELSE "none"

\* an item enters the pipeline when the one before it has left it
StartsItem == itemState \in {"idle", "failed", "done"} /\ Len(log) < MaxCalls

----------------------------------------------------------------------------
\* CheckIP.process, lines 122-147

\* line 125
ChecksIP(c) == c <= 0

CounterAfterCallNeverChecksAgain(c) == IF c <= 1 THEN 10 ELSE c - 1

\* lines 144-147
CounterAfterCall(c) == IF c <= 0 THEN 10 ELSE c - 1

CounterAfterRaiseArmed(c) == 10

\* lines 140-141: the exception leaves process before line 144
CounterAfterRaise(c) == c

\* the six names resolve to six addresses: the check passes
CheckIPPasses ==
    /\ StartsItem
    /\ ChecksIP(counter)
    /\ log' = Append(log, [c |-> counter, r |-> "pass"])
    /\ counter' = CounterAfterCall(counter)
    /\ ran' = <<"CheckIP">>
    /\ itemState' = "running"
    /\ files' = NoFiles
    /\ uploaded' = <<>>
    /\ UNCHANGED dedupInPipeline
    /\ UNCHANGED dedupVars

\* len(ip_set) != 6: line 140 raises and the item fails
CheckIPRaises ==
    /\ StartsItem
    /\ ChecksIP(counter)
    /\ log' = Append(log, [c |-> counter, r |-> "fail"])
    /\ counter' = CounterAfterRaise(counter)
    /\ ran' = <<"CheckIP">>
    /\ itemState' = "failed"
    /\ files' = NoFiles
    /\ uploaded' = <<>>
    /\ UNCHANGED dedupInPipeline
    /\ UNCHANGED dedupVars

\* the counter is positive: no check
CheckIPSkips ==
    /\ StartsItem
    /\ ~ChecksIP(counter)
    /\ log' = Append(log, [c |-> counter, r |-> "skip"])
    /\ counter' = CounterAfterCall(counter)
    /\ ran' = <<"CheckIP">>
    /\ itemState' = "running"
    /\ files' = NoFiles
    /\ uploaded' = <<>>
    /\ UNCHANGED dedupInPipeline
    /\ UNCHANGED dedupVars

----------------------------------------------------------------------------
\* The other tasks of the pipeline

\* a task that runs to its end
Runs(task) ==
    /\ NextTask = task
    /\ ran' = Append(ran, task)
    /\ itemState' = IF Len(ran) + 1 = Len(PipelineTasks(dedupInPipeline)) THEN "done" ELSE "running"
    /\ UNCHANGED <<counter, log, dedupInPipeline>>
    /\ UNCHANGED dedupVars

\* a task that raises: the item fails and no later task runs for it
Raises(task) ==
    /\ NextTask = task
    /\ ran' = Append(ran, task)
    /\ itemState' = "failed"
    /\ UNCHANGED <<counter, log, dedupInPipeline>>
    /\ UNCHANGED dedupVars

\* lines 365-366
GetItemFromTracker ==
    /\ Runs("GetItemFromTracker")
    /\ UNCHANGED <<files, uploaded>>

\* lines 170-186: the item directory is made and both files are created empty
PrepareDirectories ==
    /\ Runs("PrepareDirectories")
    /\ files' = [p \in Paths |->
                    IF p \in {ItemWarcGz, ItemData} THEN "empty"
                    ELSE IF p \in ItemDirPaths THEN "absent"
                    ELSE files[p]]
    /\ UNCHANGED uploaded

\* lines 378-389: the capture is written to <stem>.warc.gz
WgetDownload ==
    /\ Runs("WgetDownload")
    /\ files' = [files EXCEPT ![ItemWarcGz] = "raw", ![ItemData] = "data"]
    /\ UNCHANGED uploaded

\* a Wget built without zlib writes <stem>.warc instead
WgetDownloadNoZlib ==
    /\ Runs("WgetDownload")
    /\ files' = [files EXCEPT ![ItemWarc] = "raw", ![ItemData] = "data"]
    /\ UNCHANGED uploaded

\* an exit code outside accept_on_exit_code on the last try
WgetDownloadFails ==
    /\ Raises("WgetDownload")
    /\ UNCHANGED <<files, uploaded>>

\* lines 197-235 as one task: the pass completes and leaves its output
DeduplicateTask ==
    /\ Runs("Deduplicate")
    /\ files' = [files EXCEPT ![ItemDeduplicated] = "deduplicated"]
    /\ UNCHANGED uploaded

\* the pass raises: the output is left as far as it was written
DeduplicateTaskRaises ==
    /\ Raises("Deduplicate")
    /\ files' = [files EXCEPT ![ItemDeduplicated] = "partial"]
    /\ UNCHANGED uploaded

\* lines 394-407
PrepareStatsForTracker ==
    /\ Runs("PrepareStatsForTracker")
    /\ UNCHANGED <<files, uploaded>>

\* lines 269-270
MoveFilesRaises ==
    /\ Raises("MoveFiles")
    /\ files[ItemWarc] # "absent"
    /\ UNCHANGED <<files, uploaded>>

\* lines 272-277: two renames, then the item directory is removed
MoveFilesResult(f) ==
    [p \in Paths |->
        IF p = DataWarcGz THEN f[ItemWarcGz]
        ELSE IF p = DataData THEN f[ItemData]
        ELSE "absent"]

MoveFiles ==
    /\ Runs("MoveFiles")
    /\ files[ItemWarc] = "absent"
    /\ files' = MoveFilesResult(files)
    /\ UNCHANGED uploaded

\* lines 423-446
UploadWithTracker ==
    /\ Runs("UploadWithTracker")
    /\ uploaded' = <<files[DataWarcGz], files[DataData]>>
    /\ UNCHANGED files

\* lines 450-453
SendDoneToTracker ==
    /\ Runs("SendDoneToTracker")
    /\ UNCHANGED <<files, uploaded>>

PipelineInit ==
    /\ NoItem
    /\ dedupInPipeline \in BOOLEAN
    /\ input = <<>>
    /\ pos = 0
    /\ out = <<>>
    /\ digests = EmptyIndex
    /\ pc = "idle"
    /\ pass = 1
    /\ captured = <<>>

PipelineNext ==
    \/ CheckIPPasses
    \/ CheckIPRaises
    \/ CheckIPSkips
    \/ GetItemFromTracker
    \/ PrepareDirectories
    \/ WgetDownload
    \/ WgetDownloadNoZlib
    \/ WgetDownloadFails
    \/ DeduplicateTask
    \/ DeduplicateTaskRaises
    \/ PrepareStatsForTracker
    \/ MoveFilesRaises
    \/ MoveFiles
    \/ UploadWithTracker
    \/ SendDoneToTracker

PipelineSpec == PipelineInit /\ [][PipelineNext]_vars

----------------------------------------------------------------------------
\* Vocabulary of the properties

Positions == 1..Len(out)

DigestsCarried == {input[i].digest : i \in 1..Len(input)} \ {NoDigest}

\* the input positions of the response records carrying digest d
ResponsesWith(d) == {i \in 1..Len(input) : input[i].type = "response" /\ input[i].digest = d}

EarlierResponse(i) ==
    \E j \in 1..(i - 1) : input[j].type = "response" /\ input[j].digest = input[i].digest

\* the first response record with the digest of record i
FirstResponse(i) ==
    CHOOSE j \in 1..i :
        /\ input[j].type = "response" /\ input[j].digest = input[i].digest
        /\ \A k \in 1..(j - 1) : ~(input[k].type = "response" /\ input[k].digest = input[i].digest)

\* record i was a response and has been written as a revisit
Converted(i) == i \in Positions /\ input[i].type = "response" /\ out[i].type = "revisit"

BracketFree(url) == \A k \in 1..Len(url) : url[k] \notin {"<", ">"}

\* a bracket-free, non-empty URI in one pair of angle brackets
SinglyWrapped(url) ==
    /\ Len(url) >= 3
    /\ url[1] = "<"
    /\ url[Len(url)] = ">"
    /\ BracketFree(SubSeq(url, 2, Len(url) - 1))

Inner(url) == SubSeq(url, 2, Len(url) - 1)

----------------------------------------------------------------------------
\* C1: of the N response records carrying a payload digest d, the first in
\* file order is written as a response and every later one as a revisit;
\* when the pass has completed exactly one is a response and N-1 are
\* revisits.
C1_FirstOccurrence ==
    /\ \A i \in Positions :
        (input[i].type = "response" /\ input[i].digest # NoDigest) =>
            out[i].type = IF EarlierResponse(i) THEN "revisit" ELSE "response"
    /\ pc = "done" =>
        \A d \in DigestsCarried :
            LET S == ResponsesWith(d) IN
            S # {} =>
                /\ Len(out) = Len(input)
                /\ Cardinality({i \in S : out[i].type = "response"}) = 1
                /\ Cardinality({i \in S : out[i].type = "revisit"}) = Cardinality(S) - 1
                /\ \A i \in S : out[i].type = "response" => \A j \in S : i <= j

C1_Witness ==
    /\ pc = "done"
    /\ Len(input) = 3
    /\ ResponsesWith("A") = {1, 2, 3}
    /\ out[1].type = "response" /\ out[2].type = "revisit" /\ out[3].type = "revisit"

\* C2: every revisit written in place of a response refers to the record id,
\* the date and the unwrapped target URI of the first response with the same
\* payload digest, which was written earlier as a response.
C2_RevisitCorrectness ==
    \A i \in Positions :
        Converted(i) =>
            LET j == FirstResponse(i) IN
            /\ j < i
            /\ out[j].type = "response"
            /\ out[j].id = input[j].id
            /\ out[j].date = input[j].date
            /\ out[j].uri = Unwrap(input[j].uri)
            /\ out[i].refersTo = out[j].id
            /\ out[i].refersToDate = out[j].date
            /\ out[i].refersToURI = out[j].uri

C2_Witness ==
    /\ Len(out) = 3
    /\ input[1].type = "response" /\ input[1].digest = "A" /\ input[1].uri = WrappedU
    /\ input[2].type = "response" /\ input[2].digest = "B"
    /\ input[3].type = "response" /\ input[3].digest = "A" /\ input[3].uri = WrappedV
    /\ out[3].type = "revisit"
    /\ out[3].refersTo = 1 /\ out[3].refersToDate = 101 /\ out[3].refersToURI = BareU

\* C3: a response without WARC-Payload-Digest is never put in the digest
\* index and never written as a revisit.
C3_MissingDigestPassThrough ==
    /\ NoDigest \notin DOMAIN digests
    /\ \A i \in Positions :
        (input[i].type = "response" /\ input[i].digest = NoDigest) => out[i].type = "response"

\* C4: one record is written per record read; a completed pass has written
\* as many records as the input holds.
C4_CountPreservation ==
    /\ Len(out) = pos
    /\ pc = "done" => Len(out) = Len(input)

C4_Witness ==
    /\ pc = "done"
    /\ Len(input) = 3
    /\ Len(out) = 3
    /\ \E i \in Positions : Converted(i)
    /\ \E i \in Positions : input[i].type = "warcinfo"

\* C5: the i-th record written is the i-th record read, converted or not:
\* it has that record's id, date, payload digest and HTTP header block.
C5_OrderPreservation ==
    /\ Len(out) <= Len(input)
    /\ \A i \in Positions :
        /\ out[i].id = input[i].id
        /\ out[i].date = input[i].date
        /\ out[i].digest = input[i].digest
        /\ out[i].http = input[i].http

C5_Witness ==
    /\ pc = "done"
    /\ Len(out) = 3
    /\ input[1].type = "response"
    /\ Converted(2)
    /\ input[3].type = "request"
    /\ out[3].type = "request"

C8_NonParticipation ==
    /\ \A d \in DOMAIN digests :
        \E j \in 1..pos :
            /\ input[j].type = "response"
            /\ input[j].digest = d
            /\ digests[d][1] = input[j].id
    /\ \A i \in Positions :
        input[i].type # "response" =>
            /\ out[i].type = input[i].type
            /\ out[i].payload = input[i].payload
            /\ out[i].refersTo = input[i].refersTo
            /\ out[i].refersToDate = input[i].refersToDate
            /\ out[i].refersToURI = input[i].refersToURI
            /\ out[i].blockDigest = input[i].blockDigest
            /\ out[i].contentLength = input[i].contentLength

C8_Witness ==
    /\ Len(out) = 3
    /\ input[1].type = "response" /\ input[1].digest = "A"
    /\ input[2].type = "request" /\ input[2].digest = "A"
    /\ input[3].type = "revisit" /\ input[3].digest = "A"
    /\ out[2].type = "request"
    /\ out[3].refersToURI = BareW
    /\ DOMAIN digests = {"A"}

\* C9 as stated: no response or revisit record of the output has a
\* WARC-Target-URI that begins with < or ends with >.
C9_BareTargetURI ==
    \A i \in Positions :
        out[i].type \in {"response", "revisit"} => BracketFree(out[i].uri)

\* C9 as amended: a response or revisit record whose input WARC-Target-URI
\* is a bare URI, or a bare URI in one pair of angle brackets, is written
\* with the bare URI; a value in two pairs loses only the outer pair.
C9_OnePairRemoved ==
    \A i \in Positions :
        out[i].type \in {"response", "revisit"} =>
            /\ BracketFree(input[i].uri) => out[i].uri = input[i].uri
            /\ SinglyWrapped(input[i].uri) =>
                (BracketFree(out[i].uri) /\ out[i].uri = Inner(input[i].uri))
            /\ input[i].uri = NestedU => out[i].uri = WrappedU

C9_Witness ==
    /\ Len(out) = 3
    /\ input[1].uri = WrappedU /\ out[1].type = "response" /\ out[1].uri = BareU
    /\ input[2].uri = NestedU /\ out[2].type = "revisit" /\ out[2].uri = WrappedU
    /\ input[3].uri = BareU /\ out[3].type = "revisit" /\ out[3].uri = BareU

\* C10 as stated: unwrap leaves a bare URI unchanged, turns <u> into u, and
\* unwrapping the unwrapped value of any target URI changes nothing.
C10_UnwrapIdempotent ==
    \A i \in Positions :
        /\ BracketFree(input[i].uri) => out[i].uri = input[i].uri
        /\ input[i].uri = WrappedU => out[i].uri = BareU
        /\ ~UnwrapRaises(out[i].uri) /\ Unwrap(out[i].uri) = out[i].uri

\* C10 as amended: unwrap leaves a bare URI unchanged, turns <u> into u, and
\* unwrapping the unwrapped value of a target URI that is bare or is a bare
\* URI in one pair of angle brackets changes nothing.
C10_UnwrapIdempotentOnePair ==
    \A i \in Positions :
        /\ BracketFree(input[i].uri) => out[i].uri = input[i].uri
        /\ input[i].uri = WrappedU => out[i].uri = BareU
        /\ (BracketFree(input[i].uri) \/ SinglyWrapped(input[i].uri)) =>
            (~UnwrapRaises(out[i].uri) /\ Unwrap(out[i].uri) = out[i].uri)

C10_Witness ==
    /\ Len(out) = 2
    /\ input[1].uri = BareU /\ out[1].uri = BareU
    /\ input[2].uri = WrappedV /\ out[2].uri = BareV
    /\ Unwrap(out[2].uri) = BareV

\* C11: a warcinfo record is written with WARC-Filename equal to the name of
\* the output file, <stem>-deduplicated.warc.gz, and with every other header
\* and the payload as read.
C11_WarcinfoFilename ==
    \A i \in Positions :
        input[i].type = "warcinfo" =>
            /\ out[i].filename = OutputName
            /\ out[i] = [input[i] EXCEPT !.filename = out[i].filename]

\* same as record r but for the WARC-Filename header
SameButFilename(r, q) == r = [q EXCEPT !.filename = r.filename]

\* same as record r but for the WARC-Filename and WARC-Target-URI headers
SameButFilenameAndURI(r, q) == r = [q EXCEPT !.filename = r.filename, !.uri = r.uri]

\* C12 as stated: a pass over the output of a completed pass converts no
\* record and writes every record with the type and headers it read, but
\* for the WARC-Filename header of warcinfo records.
C12_SecondPassIdentity ==
    pass = 2 =>
        \A i \in Positions :
            /\ ~Converted(i)
            /\ SameButFilename(out[i], input[i])
            /\ input[i].type # "warcinfo" => out[i] = input[i]

\* C12 as amended: a pass over the output of a completed pass converts no
\* record and writes every record with the type and headers it read, but
\* for the WARC-Filename header of warcinfo records and for a
\* WARC-Target-URI that is still in angle brackets, which loses that pair.
C12_SecondPassNoConversion ==
    pass = 2 =>
        \A i \in Positions :
            /\ ~Converted(i)
            /\ out[i].type = input[i].type
            /\ SameButFilenameAndURI(out[i], input[i])
            /\ input[i].type # "warcinfo" => out[i].filename = input[i].filename
            /\ BracketFree(input[i].uri) => out[i].uri = input[i].uri
            /\ ~BracketFree(input[i].uri) =>
                (input[i].uri = WrappedU /\ out[i].uri = BareU)

C12_Witness ==
    /\ pass = 2
    /\ pc = "done"
    /\ Len(out) = 3
    /\ input[1].type = "response" /\ input[1].digest = "A"
    /\ input[2].type = "revisit" /\ input[2].digest = "A" /\ input[2].refersTo = 1
    /\ input[3].type = "warcinfo"
    /\ out[1] = input[1]
    /\ out[2] = input[2]

\* C15: the input file has the content it had when the pass started, in
\* every state of the pass, also after an exception; the output path is not
\* the input path.
C15_InputUntouched ==
    /\ input = captured
    /\ OutputFilename # InputFilename

C15_Witness ==
    /\ pc = "failed"
    /\ Len(out) = 2
    /\ Len(input) = 3
    /\ input = captured
    /\ Converted(2)

\* C16: the index is empty when a pass starts; within a pass a digest in the
\* index stays in it with the tuple stored first.
C16_IndexMonotone ==
    /\ [](pc = "open" => digests = EmptyIndex)
    /\ [][ pass' = pass =>
            \A d \in DOMAIN digests : d \in DOMAIN digests' /\ digests'[d] = digests[d] ]_vars

C16_Witness ==
    /\ pass = 1
    /\ pc = "done"
    /\ Len(out) = 3
    /\ input[1].digest = "A" /\ input[2].digest = "B" /\ input[3].digest = "A"
    /\ Converted(3)
    /\ DOMAIN digests = {"A", "B"}
    /\ digests["A"][1] = 1

\* C17: no record whose WARC-Target-URI begins with < makes the pass fail:
\* the loop never ends with an exception.
C17_UnwrapNeverAborts ==
    /\ pc # "failed"
    /\ (Reading /\ StartsWithLt(Current.uri)) => ~UnwrapRaises(Current.uri)

----------------------------------------------------------------------------
\* Vocabulary of the pipeline properties

\* the stage of section 2 of the specification a task belongs to; CheckIP
\* belongs to none
StageOf(task) ==
    CASE task = "GetItemFromTracker" -> "Item Acquisition"
      [] task = "PrepareDirectories" -> "Workspace Preparation"
      [] task = "WgetDownload" -> "Capture"
      [] task = "Deduplicate" -> "Deduplication"
      [] task = "PrepareStatsForTracker" -> "Stats Extraction"
      [] task = "MoveFiles" -> "Finalization"
      [] task = "UploadWithTracker" -> "Upload"
      [] task = "SendDoneToTracker" -> "Completion"
      [] OTHER -> "none"

IsStageTask(task) == StageOf(task) # "none"

\* the stages executed for the current item, in order
StagesRun ==
    LET tasks == SelectSeq(ran, IsStageTask) IN
    [k \in 1..Len(tasks) |-> StageOf(tasks[k])]

IsPrefix(a, b) == Len(a) <= Len(b) /\ \A k \in 1..Len(a) : a[k] = b[k]

StagesWithDeduplication ==
    << "Item Acquisition", "Workspace Preparation", "Capture", "Deduplication",
       "Stats Extraction", "Finalization", "Upload", "Completion" >>

StagesWithoutDeduplication ==
    << "Item Acquisition", "Workspace Preparation", "Capture",
       "Stats Extraction", "Finalization", "Upload", "Completion" >>

\* the task has been executed for the current item and did not raise
Completed(task) ==
    \E k \in 1..Len(ran) : ran[k] = task /\ ~(k = Len(ran) /\ itemState = "failed")

\* C13 as stated: the stages of an item execute in the order Item
\* Acquisition, Workspace Preparation, Capture, Deduplication, Stats
\* Extraction, Finalization, Upload, Completion.
C13_StageOrder ==
    /\ IsPrefix(StagesRun, StagesWithDeduplication)
    /\ itemState = "done" => StagesRun = StagesWithDeduplication

\* C13 as amended: the stages of an item execute in the order Item
\* Acquisition, Workspace Preparation, Capture, Stats Extraction,
\* Finalization, Upload, Completion; the task list as committed has no
\* Deduplication stage, and with the Deduplicate task in the list it
\* executes after Capture and before Stats Extraction.
C13_StageOrderAsCommitted ==
    LET expected == IF dedupInPipeline THEN StagesWithDeduplication
                    ELSE StagesWithoutDeduplication IN
    /\ IsPrefix(StagesRun, expected)
    /\ itemState = "done" => StagesRun = expected
    /\ ~dedupInPipeline => \A k \in 1..Len(ran) : ran[k] # "Deduplicate"

C13_Witness ==
    /\ itemState = "done"
    /\ ~dedupInPipeline
    /\ StagesRun = StagesWithoutDeduplication
    /\ Len(log) = 2

C18_CheckIPSchedule ==
    /\ counter \in 0..10
    /\ \A k \in 1..Len(log) :
        /\ log[k].c \in 0..10
        /\ log[k].r = "skip" <=> log[k].c > 0
    /\ (\A k \in 1..Len(log) : log[k].r # "fail") =>
        \A k \in 1..Len(log) : log[k].r = "pass" <=> (k - 1) % 11 = 0
    /\ \A k \in 1..Len(log) :
        log[k].r = "pass" =>
            /\ \A j \in (k + 1)..(k + 10) : j <= Len(log) => log[j].r = "skip"
            /\ k + 11 <= Len(log) => log[k + 11].r # "skip"

C18_Witness ==
    /\ Len(log) = 23
    /\ \A k \in 1..Len(log) : log[k].r # "fail"
    /\ log[1].r = "pass" /\ log[12].r = "pass" /\ log[23].r = "pass"
    /\ log[11].r = "skip" /\ log[11].c = 1
    /\ counter = 10

\* C19: a failed check leaves the counter as it was, not above 0, and fails
\* the item after CheckIP alone; the next call checks again; every call
\* without check lies within the 10 calls after a passed check, with no
\* failed check in between.
C19_FailureDoesNotArm ==
    /\ \A k \in 1..Len(log) :
        log[k].r = "fail" =>
            /\ log[k].c <= 0
            /\ k < Len(log) => (log[k + 1].c = log[k].c /\ log[k + 1].r # "skip")
            /\ k = Len(log) => (counter = log[k].c /\ itemState = "failed" /\ ran = <<"CheckIP">>)
    /\ \A k \in 1..Len(log) :
        log[k].r = "skip" =>
            \E j \in 1..(k - 1) :
                /\ log[j].r = "pass"
                /\ k - j <= 10
                /\ \A m \in (j + 1)..k : log[m].r = "skip"

C19_Witness ==
    /\ Len(log) = 14
    /\ log[1].r = "fail" /\ log[2].r = "fail" /\ log[3].r = "pass"
    /\ log[4].r = "skip" /\ log[13].r = "skip"
    /\ log[14].r = "fail"
    /\ counter = 0
    /\ itemState = "failed"

====
